---- MODULE Spec2Model ----
(***************************************************************************)
(* A model of the REM reminder-line parser of src/lib.rs.                  *)
(*                                                                         *)
(* Text is modelled character by character: a str/String is a sequence of  *)
(* one-character strings, so that lowercasing, whitespace splitting,       *)
(* splitting on ':' , joining and integer parsing are computed the way the *)
(* code computes them.  The driver `parse` and the recursive-descent       *)
(* `Parser` are a state machine that takes one step per next_word() call.  *)
(***************************************************************************)
EXTENDS Integers, Sequences, FiniteSets

VARIABLES
    stream,     \* what reader.lines() yields: a sequence of Ok(line) / Err(e)
    pos,        \* number of items of `stream` the for loop has taken
    entries,    \* parse: the Vec<Entry> being built
    parser,     \* the Parser of the current line: [index, words]
    locals,     \* values bound so far in Parser::date / Parser::entry
    last,       \* the value of the last parser.entry() call (dropped by parse)
    pc,         \* control position inside parse / Parser::entry
    returned    \* the value parse returned, None while it runs

vars == <<stream, pos, entries, parser, locals, last, pc, returned>>

----------------------------------------------------------------------------
(* Option and Result values *)

None == [tag |-> "None"]
Some(v) == [tag |-> "Some", val |-> v]
Ok(v) == [tag |-> "Ok", val |-> v]
Err(e) == [tag |-> "Err", err |-> e]

\* an error String: a fixed text and, for format!, its argument
Text(t) == [text |-> t, arg |-> <<>>]
Format(t, a) == [text |-> t, arg |-> a]

----------------------------------------------------------------------------
(* Characters *)

UpperChars == <<"A","B","C","D","E","F","G","H","I","J","K","L","M",
                "N","O","P","Q","R","S","T","U","V","W","X","Y","Z">>
LowerChars == <<"a","b","c","d","e","f","g","h","i","j","k","l","m",
                "n","o","p","q","r","s","t","u","v","w","x","y","z">>
DigitChars == <<"0","1","2","3","4","5","6","7","8","9">>

\* char::is_whitespace, on the characters the inputs use
IsWhitespace(c) == c \in {" ", "\t"}

IsDigit(c) == \E i \in 1..10 : DigitChars[i] = c

\* char::to_digit(10) of a decimal digit
ToDigit(c) == (CHOOSE i \in 1..10 : DigitChars[i] = c) - 1

\* char::to_lowercase
CharToLower(c) ==
    IF \E i \in 1..26 : UpperChars[i] = c
    THEN LowerChars[CHOOSE i \in 1..26 : UpperChars[i] = c]
    ELSE c

\* str::to_lowercase
ToLowercase(s) == [i \in 1..Len(s) |-> CharToLower(s[i])]

----------------------------------------------------------------------------
(* Splitting and joining *)

\* the least element of a non-empty set of positions
First(S) == CHOOSE i \in S : \A j \in S : i <= j

RECURSIVE SplitFrom(_, _)
\* The words of s from position i on: the iterator skips whitespace to the
\* start of the next word, takes the word up to the next whitespace or the
\* end of s, and goes on from there.  Empty words are never produced.
SplitFrom(s, i) ==
    LET starts == { j \in i..Len(s) : ~IsWhitespace(s[j]) }
        b      == First(starts)
        stops  == { j \in b..Len(s) : IsWhitespace(s[j]) }
        e      == IF stops = {} THEN Len(s) + 1 ELSE First(stops)
    IN  IF starts = {} THEN <<>>
        ELSE <<SubSeq(s, b, e - 1)>> \o SplitFrom(s, e)

\* str::split_whitespace
SplitWhitespace(s) == SplitFrom(s, 1)

RECURSIVE TrimStart(_)
TrimStart(s) ==
    IF s # <<>> /\ IsWhitespace(Head(s)) THEN TrimStart(Tail(s)) ELSE s

RECURSIVE TrimEnd(_)
TrimEnd(s) ==
    IF s # <<>> /\ IsWhitespace(s[Len(s)])
    THEN TrimEnd(SubSeq(s, 1, Len(s) - 1))
    ELSE s

\* str::trim
Trim(s) == TrimEnd(TrimStart(s))

RECURSIVE SplitOnScan(_, _, _, _, _)
SplitOnScan(s, sep, i, cur, acc) ==
    IF i > Len(s)
    THEN Append(acc, cur)
    ELSE IF s[i] = sep
         THEN SplitOnScan(s, sep, i + 1, <<>>, Append(acc, cur))
         ELSE SplitOnScan(s, sep, i + 1, Append(cur, s[i]), acc)

\* str::split(char): the parts between separators, empty parts included;
\* always at least one part
SplitOn(s, sep) == SplitOnScan(s, sep, 1, <<>>, <<>>)

RECURSIVE JoinNoSep(_, _)
\* variant of Join: the separator is left out
JoinNoSep(ws, sep) ==
    IF ws = <<>> THEN <<>> ELSE Head(ws) \o JoinNoSep(Tail(ws), sep)

RECURSIVE Join(_, _)
\* [String]::join(sep)
Join(ws, sep) ==
    IF ws = <<>> THEN <<>>
    ELSE IF Len(ws) = 1 THEN Head(ws)
    ELSE Head(ws) \o sep \o Join(Tail(ws), sep)

----------------------------------------------------------------------------
(* Integer parsing and casts *)

EmptyError == "cannot parse integer from empty string"
InvalidDigitError == "invalid digit found in string"
PosOverflowError == "number too large to fit in target type"

\* The sign handling of str::parse for an unsigned type: a leading '+' is
\* dropped, a leading '-' is left in place (and is then no digit); a lone
\* sign is an invalid digit.
StripSign(s) == IF Len(s) > 1 /\ s[1] = "+" THEN Tail(s) ELSE s

RECURSIVE ParseU8Scan(_, _, _)
\* checked_mul(10) then checked_add(digit) on a u8, left to right
ParseU8Scan(s, i, acc) ==
    IF i > Len(s) THEN Ok(acc)
    ELSE IF ~IsDigit(s[i]) THEN Err(Text(InvalidDigitError))
    ELSE IF acc * 10 > 255 THEN Err(Text(PosOverflowError))
    ELSE IF acc * 10 + ToDigit(s[i]) > 255 THEN Err(Text(PosOverflowError))
    ELSE ParseU8Scan(s, i + 1, acc * 10 + ToDigit(s[i]))

RECURSIVE ParseU8NoCheckScan(_, _, _)
\* variant of ParseU8Scan: wrapping instead of checked arithmetic
ParseU8NoCheckScan(s, i, acc) ==
    IF i > Len(s) THEN Ok(acc)
    ELSE IF ~IsDigit(s[i]) THEN Err(Text(InvalidDigitError))
    ELSE ParseU8NoCheckScan(s, i + 1, (acc * 10 + ToDigit(s[i])) % 256)

\* variant of ParseU8: a value over 255 wraps around instead of failing
ParseU8Wrapping(s) ==
    IF s = <<>> THEN Err(Text(EmptyError))
    ELSE ParseU8NoCheckScan(StripSign(s), 1, 0)

\* str::parse::<u8>
ParseU8(s) ==
    IF s = <<>> THEN Err(Text(EmptyError))
    ELSE ParseU8Scan(StripSign(s), 1, 0)

\* A u32 is kept as two 16-bit halves, value = hi * 65536 + lo.
U32(hi, lo) == [hi |-> hi, lo |-> lo]

RECURSIVE ParseU32Scan(_, _, _)
\* checked_mul(10) then checked_add(digit) on a u32, left to right
ParseU32Scan(s, i, acc) ==
    IF i > Len(s) THEN Ok(acc)
    ELSE IF ~IsDigit(s[i]) THEN Err(Text(InvalidDigitError))
    ELSE LET lo10 == acc.lo * 10
             hi10 == acc.hi * 10 + (lo10 \div 65536)
             lo2  == (lo10 % 65536) + ToDigit(s[i])
             hi2  == hi10 + (lo2 \div 65536)
         IN  IF hi10 > 65535 THEN Err(Text(PosOverflowError))
             ELSE IF hi2 > 65535 THEN Err(Text(PosOverflowError))
             ELSE ParseU32Scan(s, i + 1, U32(hi2, lo2 % 65536))

\* str::parse::<u32>
ParseU32(s) ==
    IF s = <<>> THEN Err(Text(EmptyError))
    ELSE ParseU32Scan(StripSign(s), 1, U32(0, 0))

\* `as u8` of a u32: the low 8 bits
AsU8(n) == n.lo % 256

\* `as u16` of a u32: the low 16 bits
AsU16(n) == n.lo % 65536

----------------------------------------------------------------------------
(* enum Month: the variants are their ordinal values *)

January == 0
February == 1
March == 2
April == 3
May == 4
June == 5
July == 6
August == 7
September == 8
October == 9
November == 10
December == 11

----------------------------------------------------------------------------
(* Words the grammar names *)

wREM == <<"R","E","M">>
wAT == <<"A","T">>
wDURATION == <<"D","U","R","A","T","I","O","N">>
wMSG == <<"M","S","G">>

----------------------------------------------------------------------------
(* Parser: every rule maps a parser to [parser |-> the parser after the    *)
(* rule, res |-> the rule's Result]                                        *)

\* Parser::new
ParserNew(line) ==
    [index |-> 0,
     words |-> SelectSeq(SplitWhitespace(line), LAMBDA word : Trim(word) # <<>>)]

\* variant of NextWord: the index is advanced at the end of input too
NextWordAlways(p) ==
    [parser |-> [p EXCEPT !.index = @ + 1],
     word   |-> IF p.index < Len(p.words) THEN Some(p.words[p.index + 1]) ELSE None]

\* Parser::next_word: words.get(index), and index += 1 when it is Some
NextWord(p) ==
    LET result == IF p.index < Len(p.words) THEN Some(p.words[p.index + 1]) ELSE None
    IN  [parser |-> IF result.tag = "Some" THEN [p EXCEPT !.index = @ + 1] ELSE p,
         word   |-> result]

\* Option<&str>::map(str::to_lowercase)
MapToLowercase(o) == IF o.tag = "Some" THEN Some(ToLowercase(o.val)) ELSE None

\* variant of Ident: the word is compared as written
IdentExact(p, ident) ==
    LET n == NextWord(p)
    IN  [parser |-> n.parser,
         res    |-> IF n.word # Some(ident)
                    THEN Err(Text("Expecting REM at beginning of line"))
                    ELSE Ok("unit")]

\* Parser::ident
Ident(p, ident) ==
    LET n == NextWord(p)
    IN  [parser |-> n.parser,
         res    |-> IF MapToLowercase(n.word) # Some(ToLowercase(ident))
                    THEN Err(Text("Expecting REM at beginning of line"))
                    ELSE Ok("unit")]

\* variant of MonthMatch: the arms of jun and jul are exchanged
MonthMatchSwapped(month) ==
    CASE month = <<"j","a","n">> -> Ok(January)
      [] month = <<"f","e","b">> -> Ok(February)
      [] month = <<"m","a","r">> -> Ok(March)
      [] month = <<"a","p","r">> -> Ok(April)
      [] month = <<"m","a","y">> -> Ok(May)
      [] month = <<"j","u","n">> -> Ok(July)
      [] month = <<"j","u","l">> -> Ok(June)
      [] month = <<"a","u","g">> -> Ok(August)
      [] month = <<"s","e","p">> -> Ok(September)
      [] month = <<"o","c","t">> -> Ok(October)
      [] month = <<"n","o","v">> -> Ok(November)
      [] month = <<"d","e","c">> -> Ok(December)
      [] OTHER -> Err(Format("Invalid month {}", month))

\* the match of Parser::date on the lowercased word
MonthMatch(month) ==
    CASE month = <<"j","a","n">> -> Ok(January)
      [] month = <<"f","e","b">> -> Ok(February)
      [] month = <<"m","a","r">> -> Ok(March)
      [] month = <<"a","p","r">> -> Ok(April)
      [] month = <<"m","a","y">> -> Ok(May)
      [] month = <<"j","u","n">> -> Ok(June)
      [] month = <<"j","u","l">> -> Ok(July)
      [] month = <<"a","u","g">> -> Ok(August)
      [] month = <<"s","e","p">> -> Ok(September)
      [] month = <<"o","c","t">> -> Ok(October)
      [] month = <<"n","o","v">> -> Ok(November)
      [] month = <<"d","e","c">> -> Ok(December)
      [] OTHER -> Err(Format("Invalid month {}", month))

\* Parser::date, its first statement: the month word
MonthName(p) ==
    LET n == NextWord(p)
    IN  [parser |-> n.parser,
         res    |-> IF n.word.tag = "None"
                    THEN Err(Text("Expecting date, found end of line"))
                    ELSE MonthMatch(ToLowercase(n.word.val))]

\* Parser::num
Num(p) ==
    LET n == NextWord(p)
    IN  [parser |-> n.parser,
         res    |-> IF n.word.tag = "None"
                    THEN Err(Text("Expecting day of month, found end of line"))
                    ELSE ParseU32(n.word.val)]

\* Parser::time_num
TimeNum(p) ==
    LET n == NextWord(p)
    IN  [parser |-> n.parser,
         res    |->
            IF n.word.tag = "None"
            THEN Err(Text("Expecting time, found end of line"))
            ELSE LET parts  == SplitOn(n.word.val, ":")
                     hour   == IF Len(parts) < 1
                               THEN Err(Text("Expecting hour, found end of line"))
                               ELSE ParseU8(parts[1])
                     minute == IF Len(parts) < 2
                               THEN Err(Text("Expecting hour, found end of line"))
                               ELSE ParseU8(parts[2])
                 IN  IF hour.tag = "Err" THEN hour
                     ELSE IF minute.tag = "Err" THEN minute
                     ELSE Ok([hour |-> hour.val, minute |-> minute.val])]

\* variant of DurationSecs: the hours are counted as minutes
DurationSecsHoursAsMinutes(time) == time.hour * 60 + time.minute * 60

\* Duration::from_secs(hour * 60 * 60 + minute * 60), in seconds
DurationSecs(time) == time.hour * 60 * 60 + time.minute * 60

\* Parser::message
Message(p) ==
    LET i == Ident(p, wMSG)
    IN  [parser |-> i.parser,
         res    |-> IF i.res.tag = "Err" THEN i.res
                    ELSE Ok(Join(SubSeq(i.parser.words, i.parser.index + 1,
                                        Len(i.parser.words)), <<" ">>))]

\* Parser::date
Date(p) ==
    LET m == MonthName(p)
        d == Num(m.parser)
        y == Num(d.parser)
    IN  IF m.res.tag = "Err" THEN m
        ELSE IF d.res.tag = "Err" THEN d
        ELSE IF y.res.tag = "Err" THEN y
        ELSE [parser |-> y.parser,
              res    |-> Ok([day |-> AsU8(d.res.val), month |-> m.res.val,
                             year |-> AsU16(y.res.val)])]

\* Parser::time
Time(p) ==
    LET i == Ident(p, wAT)
    IN  IF i.res.tag = "Err" THEN i ELSE TimeNum(i.parser)

\* Parser::duration
Duration(p) ==
    LET i == Ident(p, wDURATION)
        t == TimeNum(i.parser)
    IN  IF i.res.tag = "Err" THEN i
        ELSE IF t.res.tag = "Err" THEN t
        ELSE [parser |-> t.parser, res |-> Ok(DurationSecs(t.res.val))]

\* Parser::entry
Entry(p) ==
    LET i == Ident(p, wREM)
        d == Date(i.parser)
        t == Time(d.parser)
        u == Duration(t.parser)
        m == Message(u.parser)
    IN  IF i.res.tag = "Err" THEN i
        ELSE IF d.res.tag = "Err" THEN d
        ELSE IF t.res.tag = "Err" THEN t
        ELSE IF u.res.tag = "Err" THEN u
        ELSE IF m.res.tag = "Err" THEN m
        ELSE [parser |-> m.parser,
              res    |-> Ok([date |-> d.res.val, duration |-> u.res.val,
                             msg |-> m.res.val, time |-> t.res.val])]

----------------------------------------------------------------------------
(* parse: the driver *)

\* variant of Push: the entry is put in front
PushFront(v, e) == <<e>> \o v

\* Vec::push
Push(v, e) == Append(v, e)

\* variant of Collect: a failed line adds an entry that has only a message
CollectAlways(es, res) ==
    Push(es, IF res.tag = "Ok" THEN res.val ELSE [msg |-> <<>>])

\* `if let Ok(entry) = parser.entry() { entries.push(entry); }`
Collect(es, res) == IF res.tag = "Ok" THEN Push(es, res.val) ELSE es

\* the locals of a call of Parser::entry before any of them is bound
NoLocals == [month |-> January, day |-> 0, year |-> 0,
             time |-> [hour |-> 0, minute |-> 0], duration |-> 0]

\* The current line's parse ends with the error of rule result r: entry()
\* returns it and the for loop goes on to the next line.
Abort(r) ==
    /\ parser' = r.parser
    /\ last' = r.res
    /\ entries' = Collect(entries, r.res)
    /\ pc' = "lines"
    /\ UNCHANGED <<stream, pos, locals, returned>>

\* The rule succeeded: entry() goes on with the next rule.
Proceed(r, next, newLocals) ==
    /\ parser' = r.parser
    /\ locals' = newLocals
    /\ pc' = next
    /\ UNCHANGED <<stream, pos, entries, last, returned>>

\* reader.lines() yields Ok(line): a fresh Parser is built and entry() called
NextLine ==
    /\ pc = "lines"
    /\ pos < Len(stream)
    /\ stream[pos + 1].tag = "Ok"
    /\ pos' = pos + 1
    /\ parser' = ParserNew(stream[pos + 1].val)
    /\ locals' = NoLocals
    /\ pc' = "ident_rem"
    /\ UNCHANGED <<stream, entries, last, returned>>

\* variant of ReadError: the failed read is skipped and the loop goes on
ReadErrorSkip ==
    /\ pc = "lines"
    /\ pos < Len(stream)
    /\ stream[pos + 1].tag = "Err"
    /\ pos' = pos + 1
    /\ UNCHANGED <<stream, entries, parser, locals, last, pc, returned>>

\* reader.lines() yields Err(error): `?` returns Err(error.to_string())
ReadError ==
    /\ pc = "lines"
    /\ pos < Len(stream)
    /\ stream[pos + 1].tag = "Err"
    /\ pos' = pos + 1
    /\ returned' = Err(stream[pos + 1].err)
    /\ pc' = "returned"
    /\ UNCHANGED <<stream, entries, parser, locals, last>>

\* reader.lines() is exhausted: Ok(entries)
Return ==
    /\ pc = "lines"
    /\ pos = Len(stream)
    /\ returned' = Ok(entries)
    /\ pc' = "returned"
    /\ UNCHANGED <<stream, pos, entries, parser, locals, last>>

\* entry: self.ident("REM")?
EntryRem ==
    /\ pc = "ident_rem"
    /\ LET r == Ident(parser, wREM)
       IN  IF r.res.tag = "Err" THEN Abort(r) ELSE Proceed(r, "month", locals)

\* date: the month word
DateMonth ==
    /\ pc = "month"
    /\ LET r == MonthName(parser)
       IN  IF r.res.tag = "Err" THEN Abort(r)
           ELSE Proceed(r, "day", [locals EXCEPT !.month = r.res.val])

\* date: let day = self.num()? as u8
DateDay ==
    /\ pc = "day"
    /\ LET r == Num(parser)
       IN  IF r.res.tag = "Err" THEN Abort(r)
           ELSE Proceed(r, "year", [locals EXCEPT !.day = AsU8(r.res.val)])

\* date: let year = self.num()? as u16
DateYear ==
    /\ pc = "year"
    /\ LET r == Num(parser)
       IN  IF r.res.tag = "Err" THEN Abort(r)
           ELSE Proceed(r, "ident_at", [locals EXCEPT !.year = AsU16(r.res.val)])

\* time: self.ident("AT")?
TimeAt ==
    /\ pc = "ident_at"
    /\ LET r == Ident(parser, wAT)
       IN  IF r.res.tag = "Err" THEN Abort(r) ELSE Proceed(r, "time_num", locals)

\* time: self.time_num()?
TimeTimeNum ==
    /\ pc = "time_num"
    /\ LET r == TimeNum(parser)
       IN  IF r.res.tag = "Err" THEN Abort(r)
           ELSE Proceed(r, "ident_duration", [locals EXCEPT !.time = r.res.val])

\* duration: self.ident("DURATION")?
DurationIdent ==
    /\ pc = "ident_duration"
    /\ LET r == Ident(parser, wDURATION)
       IN  IF r.res.tag = "Err" THEN Abort(r) ELSE Proceed(r, "duration_num", locals)

\* duration: self.time_num()? and Duration::from_secs
DurationTimeNum ==
    /\ pc = "duration_num"
    /\ LET r == TimeNum(parser)
       IN  IF r.res.tag = "Err" THEN Abort(r)
           ELSE Proceed(r, "message",
                        [locals EXCEPT !.duration = DurationSecs(r.res.val)])

\* entry: self.message()?, Ok(Entry { .. }), and the push in parse
EntryMessage ==
    /\ pc = "message"
    /\ LET r == Message(parser)
           entry == [date     |-> [day |-> locals.day, month |-> locals.month,
                                   year |-> locals.year],
                     duration |-> locals.duration,
                     msg      |-> r.res.val,
                     time     |-> locals.time]
       IN  IF r.res.tag = "Err" THEN Abort(r)
           ELSE Abort([parser |-> r.parser, res |-> Ok(entry)])

Next ==
    \/ NextLine
    \/ ReadError
    \/ Return
    \/ EntryRem
    \/ DateMonth
    \/ DateDay
    \/ DateYear
    \/ TimeAt
    \/ TimeTimeNum
    \/ DurationIdent
    \/ DurationTimeNum
    \/ EntryMessage

----------------------------------------------------------------------------
(* Inputs *)

\* most lines a multi-line input has
MaxLines == 3
\* most words a message of a single-line input has
MaxMsgWords == 2

RECURSIVE Glue(_, _)
Glue(ws, sep) ==
    IF ws = <<>> THEN <<>>
    ELSE IF Len(ws) = 1 THEN ws[1]
    ELSE ws[1] \o sep \o Glue(Tail(ws), sep)

\* the line made of words ws with the given leading, separating and
\* trailing whitespace
Layout(ws, lay) == lay[1] \o Glue(ws, lay[2]) \o lay[3]

Sp == <<" ">>
Layouts ==
    { <<<<>>, Sp, <<>>>>,
      << Sp \o Sp \o Sp \o Sp \o Sp \o Sp \o Sp \o Sp, Sp \o Sp, Sp >>,
      << <<"\t">>, <<" ", "\t">>, <<"\t", " ">> >> }

MonthWords ==
    {
    <<"J","a","n">>, <<"F","E","B">>, <<"m","a","r">>, <<"A","p","r">>,
    <<"M","A","Y">>, <<"j","u","n">>, <<"j","U","L">>, <<"A","u","g">>,
    <<"S","E","P">>, <<"o","c","t">>, <<"N","o","v">>, <<"D","E","C">>,
    <<"X","y","z">>, <<"M","a","r","c","h">>, <<"3">>, <<"m","a">>,
    <<"s","e","p","t">> }

DayWords ==
    {
    <<"3","0">>, <<"9">>, <<"0">>, <<"9","9">>, <<"2","5","5">>,
    <<"2","5","6">>, <<"3","0","0">>, <<"0","0","7">>, <<"+","5">>,
    <<"-","1">>, <<"3","a">>, <<"6","5","5","3","6">>,
    <<"4","2","9","4","9","6","7","2","9","5">>,
    <<"4","2","9","4","9","6","7","2","9","6">> }

YearWords ==
    {
    <<"2","0","1","8">>, <<"0">>, <<"6","5","5","3","5">>,
    <<"6","5","5","3","6">>, <<"7","0","0","0","0">>, <<"x">> }

TimeWords ==
    {
    <<"1","9",":","0","0">>, <<"1","2",":","5","0">>, <<"0",":","1","5">>,
    <<"9","9",":","5","9">>, <<"2","5","5",":","2","5","5">>,
    <<"1","9",":","0","0",":","5","9">>, <<"1",":","2",":","x">>,
    <<"1","9">>, <<"1","9",":">>, <<":","0","0">>, <<":">>,
    <<"2","5","6",":","0","0">>, <<"1","9",":","2","5","6">>,
    <<"a",":","0","0">>, <<"1",":","b">>, <<"+","5",":","+","3">>,
    <<"-","1",":","0","0">>, <<"1","9","0","0">> }

RemWords == { <<"R","E","M">>, <<"r","e","m">>, <<"R","e","m">>, <<"R","E","M","S">>, <<"A","T">> }
AtWords == { <<"A","T">>, <<"a","t">>, <<"a","T">>, <<"A">>, <<"O","N">> }
DurationWords == { <<"D","U","R","A","T","I","O","N">>, <<"d","u","r","a","t","i","o","n">>, <<"D","u","r","a","t","i","o","n">>, <<"D","U","R">>, <<"M","S","G">> }
MsgWords == { <<"M","S","G">>, <<"m","s","g">>, <<"m","S","g">>, <<"M","S","G",":">>, <<"E","v","e","n","t">> }

TextWords == { <<"E","v","e","n","t">>, <<"n","a","m","e">>, <<"M","S","G">> }

RECURSIVE SeqsUpTo(_, _)
\* the sequences of at most n elements of S
SeqsUpTo(S, n) ==
    IF n = 0 THEN { <<>> }
    ELSE SeqsUpTo(S, n - 1) \cup
         { Append(q, x) : q \in { q \in SeqsUpTo(S, n - 1) : Len(q) = n - 1 }, x \in S }

\* "REM Mar 30 2018 AT 19:00 DURATION 1:15 MSG Event name", as words
BaseWords ==
    << <<"R","E","M">>, <<"M","a","r">>, <<"3","0">>, <<"2","0","1","8">>,
       <<"A","T">>, <<"1","9",":","0","0">>,
       <<"D","U","R","A","T","I","O","N">>, <<"1",":","1","5">>,
       <<"M","S","G">>, <<"E","v","e","n","t">>, <<"n","a","m","e">> >>

\* "REM Apr 9 2018 AT 12:50 DURATION 0:15 MSG Super Event"
AprilWords ==
    << <<"R","E","M">>, <<"A","p","r">>, <<"9">>, <<"2","0","1","8">>,
       <<"A","T">>, <<"1","2",":","5","0">>,
       <<"D","U","R","A","T","I","O","N">>, <<"0",":","1","5">>,
       <<"M","S","G">>, <<"S","u","p","e","r">>, <<"E","v","e","n","t">> >>

\* all keywords in lower case, no message
LowerWords ==
    << <<"r","e","m">>, <<"d","e","c">>, <<"1">>, <<"2","0","2","0">>,
       <<"a","t">>, <<"1","0",":","0","0">>,
       <<"d","u","r","a","t","i","o","n">>, <<"1",":","0","0">>,
       <<"m","s","g">> >>

\* all keywords in upper case, no message
UpperWords ==
    << <<"R","E","M">>, <<"D","E","C">>, <<"1">>, <<"2","0","2","0">>,
       <<"A","T">>, <<"1","0",":","0","0">>,
       <<"D","U","R","A","T","I","O","N">>, <<"1",":","0","0">>,
       <<"M","S","G">> >>

\* the MSG keyword is missing
NoMsgWords ==
    << <<"R","E","M">>, <<"M","a","r">>, <<"3","0">>, <<"2","0","1","8">>,
       <<"A","T">>, <<"1","9",":","0","0">>,
       <<"D","U","R","A","T","I","O","N">>, <<"1",":","1","5">>,
       <<"E","v","e","n","t">>, <<"n","a","m","e">> >>

\* "REM Xyz 1 2020 AT 10:00 DURATION 1:00 MSG x"
XyzWords ==
    << <<"R","E","M">>, <<"X","y","z">>, <<"1">>, <<"2","0","2","0">>,
       <<"A","T">>, <<"1","0",":","0","0">>,
       <<"D","U","R","A","T","I","O","N">>, <<"1",":","0","0">>,
       <<"M","S","G">>, <<"x">> >>

\* a line that does not start with REM
OtherWords ==
    << <<"E","v","e","n","t">>, <<"A","T">>, <<"1","9",":","0","0">> >>

\* BaseWords with one position varied, its prefixes, and the lines above
WordLists ==
    { [BaseWords EXCEPT ![1] = w] : w \in RemWords } \cup
    { [BaseWords EXCEPT ![2] = w] : w \in MonthWords } \cup
    { [BaseWords EXCEPT ![3] = w] : w \in DayWords } \cup
    { [BaseWords EXCEPT ![4] = w] : w \in YearWords } \cup
    { [BaseWords EXCEPT ![5] = w] : w \in AtWords } \cup
    { [BaseWords EXCEPT ![6] = w] : w \in TimeWords } \cup
    { [BaseWords EXCEPT ![7] = w] : w \in DurationWords } \cup
    { [BaseWords EXCEPT ![8] = w] : w \in TimeWords } \cup
    { [BaseWords EXCEPT ![9] = w] : w \in MsgWords } \cup
    { SubSeq(BaseWords, 1, 9) \o text : text \in SeqsUpTo(TextWords, MaxMsgWords) } \cup
    { SubSeq(BaseWords, 1, n) : n \in 0..9 } \cup
    { AprilWords, LowerWords, UpperWords, NoMsgWords, XyzWords, OtherWords }

ReadFailure == Err(Text("stream did not contain valid UTF-8"))

\* inputs of one line, in every layout
SingleLineStreams ==
    { << Ok(Layout(ws, lay)) >> : ws \in WordLists, lay \in Layouts }

Plain == << <<>>, Sp, <<>> >>
Indented == << Sp \o Sp \o Sp \o Sp \o Sp \o Sp \o Sp \o Sp, Sp, <<>> >>

\* the lines of multi-line inputs; the last one is blank
FewLines ==
    { Layout(BaseWords, Plain),
      Layout(AprilWords, Indented),
      Layout(LowerWords, Plain),
      Layout(NoMsgWords, Plain),
      <<>> }

\* inputs of at most MaxLines items, each a line or a failed read
MultiLineStreams ==
    SeqsUpTo({ Ok(l) : l \in FewLines } \cup { ReadFailure }, MaxLines)

Init ==
    /\ stream \in SingleLineStreams \cup MultiLineStreams
    /\ pos = 0
    /\ entries = <<>>
    /\ parser = [index |-> 0, words |-> <<>>]
    /\ locals = NoLocals
    /\ last = None
    /\ pc = "lines"
    /\ returned = None

Spec == Init /\ [][Next]_vars

----------------------------------------------------------------------------
(* Vocabulary of the properties.  These definitions restate what the       *)
(* specification says about a line, independently of the parser above.     *)

Blank(c) == c = " " \/ c = "\t"

\* the positions of line s where a maximal run of non-blank characters starts
WordStarts(s) == { i \in 1..Len(s) : ~Blank(s[i]) /\ (i = 1 \/ Blank(s[i - 1])) }

\* the last position of the run that starts at i
WordEnd(s, i) ==
    CHOOSE j \in i..Len(s) :
        /\ \A k \in i..j : ~Blank(s[k])
        /\ (j = Len(s) \/ Blank(s[j + 1]))

\* the whitespace-delimited tokens of line s, in order: the k-th token is
\* the run whose start has k - 1 starts before it
Tokens(s) ==
    LET starts == WordStarts(s)
        token(k) == LET i == CHOOSE i \in starts :
                                Cardinality({ j \in starts : j < i }) = k - 1
                    IN  SubSeq(s, i, WordEnd(s, i))
    IN  <<>> \o [k \in 1..Cardinality(starts) |-> token(k)]

\* w spells the keyword, whose letters are given in both cases
Spells(w, kw) ==
    /\ Len(w) = Len(kw[1])
    /\ \A i \in 1..Len(w) : w[i] = kw[1][i] \/ w[i] = kw[2][i]

KwRem == << <<"R","E","M">>, <<"r","e","m">> >>
KwAt == << <<"A","T">>, <<"a","t">> >>
KwDuration == << <<"D","U","R","A","T","I","O","N">>,
                 <<"d","u","r","a","t","i","o","n">> >>
KwMsg == << <<"M","S","G">>, <<"m","s","g">> >>

\* the twelve abbreviations, in calendar order
Abbreviations ==
    << << <<"J","A","N">>, <<"j","a","n">> >>, << <<"F","E","B">>, <<"f","e","b">> >>,
       << <<"M","A","R">>, <<"m","a","r">> >>, << <<"A","P","R">>, <<"a","p","r">> >>,
       << <<"M","A","Y">>, <<"m","a","y">> >>, << <<"J","U","N">>, <<"j","u","n">> >>,
       << <<"J","U","L">>, <<"j","u","l">> >>, << <<"A","U","G">>, <<"a","u","g">> >>,
       << <<"S","E","P">>, <<"s","e","p">> >>, << <<"O","C","T">>, <<"o","c","t">> >>,
       << <<"N","O","V">>, <<"n","o","v">> >>, << <<"D","E","C">>, <<"d","e","c">> >> >>

IsAbbreviation(w) == \E k \in 1..12 : Spells(w, Abbreviations[k])

\* the ordinal (0 for January .. 11 for December) of an abbreviation
Ordinal(w) == (CHOOSE k \in 1..12 : Spells(w, Abbreviations[k])) - 1

Digits == {"0","1","2","3","4","5","6","7","8","9"}

\* a non-negative base-10 integer: one or more digits
IsInteger(w) == w # <<>> /\ \A i \in 1..Len(w) : w[i] \in Digits

DigitValue(c) ==
    CASE c = "0" -> 0 [] c = "1" -> 1 [] c = "2" -> 2 [] c = "3" -> 3
      [] c = "4" -> 4 [] c = "5" -> 5 [] c = "6" -> 6 [] c = "7" -> 7
      [] c = "8" -> 8 [] c = "9" -> 9

\* values from Huge up are not told apart
Huge == 1000000

RECURSIVE ValueFrom(_, _)
ValueFrom(w, acc) ==
    IF w = <<>> THEN acc
    ELSE ValueFrom(Tail(w),
                   IF acc * 10 + DigitValue(Head(w)) > Huge THEN Huge
                   ELSE acc * 10 + DigitValue(Head(w)))

\* the numeric value of an integer token (Huge when it is that or more)
Value(w) == ValueFrom(w, 0)

\* an integer written with an optional leading plus sign
IsNumeral(w) ==
    IsInteger(w) \/ (Len(w) > 1 /\ w[1] = "+" /\ IsInteger(Tail(w)))

NumeralValue(w) == IF w[1] = "+" THEN Value(Tail(w)) ELSE Value(w)

Colons(w) == { i \in 1..Len(w) : w[i] = ":" }

\* the part of w before its first colon
HourPart(w) ==
    LET c == CHOOSE i \in Colons(w) : \A j \in Colons(w) : i <= j
    IN  SubSeq(w, 1, c - 1)

\* the part of w between its first colon and its second colon or its end
MinutePart(w) ==
    LET c == CHOOSE i \in Colons(w) : \A j \in Colons(w) : i <= j
        later == { i \in Colons(w) : i > c }
        d == IF later = {} THEN Len(w) + 1
             ELSE CHOOSE i \in later : \A j \in later : i <= j
    IN  SubSeq(w, c + 1, d - 1)

\* an hh:mm literal: integer, colon, integer
IsHhMm(w) ==
    /\ Cardinality(Colons(w)) = 1
    /\ IsInteger(HourPart(w))
    /\ IsInteger(MinutePart(w))

\* the tokens have the shape of the line grammar
HasShape(ws) ==
    /\ Len(ws) >= 9
    /\ Spells(ws[1], KwRem)
    /\ IsAbbreviation(ws[2])
    /\ IsInteger(ws[3])
    /\ IsInteger(ws[4])
    /\ Spells(ws[5], KwAt)
    /\ IsHhMm(ws[6])
    /\ Spells(ws[7], KwDuration)
    /\ IsHhMm(ws[8])
    /\ Spells(ws[9], KwMsg)

\* every number of a line of that shape fits the field it goes to
FitsFields(ws) ==
    /\ Value(ws[3]) <= 255
    /\ Value(ws[4]) <= 65535
    /\ Value(HourPart(ws[6])) <= 255
    /\ Value(MinutePart(ws[6])) <= 255
    /\ Value(HourPart(ws[8])) <= 255
    /\ Value(MinutePart(ws[8])) <= 255

RECURSIVE Spaced(_)
\* the words, one space between neighbours
Spaced(ws) ==
    IF ws = <<>> THEN <<>>
    ELSE IF Len(ws) = 1 THEN ws[1]
    ELSE ws[1] \o <<" ">> \o Spaced(Tail(ws))

\* the entry the specification gives a line of that shape
EntryOfShape(ws) ==
    [date     |-> [day |-> Value(ws[3]), month |-> Ordinal(ws[2]),
                   year |-> Value(ws[4])],
     duration |-> Value(HourPart(ws[8])) * 3600 + Value(MinutePart(ws[8])) * 60,
     msg      |-> Spaced(SubSeq(ws, 10, Len(ws))),
     time     |-> [hour |-> Value(HourPart(ws[6])),
                   minute |-> Value(MinutePart(ws[6]))]]

\* the for loop has just finished a line: `last` is what entry() returned
LineDone == pc = "lines" /\ pos > 0

\* the line just finished, and its tokens
CurLine == stream[pos].val
CurTokens == Tokens(CurLine)

\* the lines read so far that entry() accepts
Accepted == { i \in 1..pos : stream[i].tag = "Ok"
                             /\ Entry(ParserNew(stream[i].val)).res.tag = "Ok" }

----------------------------------------------------------------------------
(* C1 *)

\* C1, as stated: every line whose tokens are REM, a month abbreviation, a
\* day integer, a year integer, AT, an hh:mm literal, DURATION, an hh:mm
\* literal, MSG and zero or more words, whatever its whitespace, yields
\* exactly one entry, with the date, time, duration and message the tokens
\* denote.
C1_AnyIntegers ==
    (LineDone /\ HasShape(CurTokens)) =>
        /\ last = Ok(EntryOfShape(CurTokens))
        /\ Len(entries) = Cardinality(Accepted)
        /\ entries[Len(entries)] = EntryOfShape(CurTokens)

\* C1, amended: the same for every such line whose day, hour and minute
\* integers are at most 255 and whose year integer is at most 65535.
C1_ShapedLineYieldsEntry ==
    (LineDone /\ HasShape(CurTokens) /\ FitsFields(CurTokens)) =>
        /\ last = Ok(EntryOfShape(CurTokens))
        /\ Len(entries) = Cardinality(Accepted)
        /\ entries[Len(entries)] = EntryOfShape(CurTokens)

\* a shaped line with surplus whitespace has been parsed after another line
C1_Witness ==
    /\ LineDone
    /\ pos > 1
    /\ HasShape(CurTokens) /\ FitsFields(CurTokens)
    /\ Len(CurLine) > Len(Spaced(CurTokens))
    /\ Len(CurTokens) > 10
    /\ last.tag = "Ok"

----------------------------------------------------------------------------
(* C5 *)

\* C5: day and year tokens are accepted whenever they are non-negative
\* base-10 integers fitting 8 and 16 bits, and for every line that yields
\* an entry the stored day and year equal the numeric values of the day
\* and year tokens.
C5_StoredDayYearAreTokenValues ==
    /\ (LineDone /\ HasShape(CurTokens) /\ FitsFields(CurTokens)) => last.tag = "Ok"
    /\ (LineDone /\ last.tag = "Ok") =>
          /\ IsNumeral(CurTokens[3]) /\ IsNumeral(CurTokens[4])
          /\ last.val.date.day = NumeralValue(CurTokens[3])
          /\ last.val.date.year = NumeralValue(CurTokens[4])

----------------------------------------------------------------------------
(* C2 *)

RECURSIVE EntriesOf(_)
\* the entries of the lines on which entry() succeeds, in line order, each
\* from a parser built for that line alone
EntriesOf(items) ==
    IF items = <<>> THEN <<>>
    ELSE LET r == Entry(ParserNew(Head(items).val)).res
         IN  (IF r.tag = "Ok" THEN <<r.val>> ELSE <<>>) \o EntriesOf(Tail(items))

ReadFailures == { i \in 1..Len(stream) : stream[i].tag = "Err" }

\* C2: when every line is read without stream error, parse returns exactly
\* the in-order sequence of the entries of the lines on which entry()
\* succeeds, each entry depending on its own line alone; the same holds of
\* the list built so far after each line.
C2_EntriesInLineOrder ==
    /\ pc = "lines" => entries = EntriesOf(SubSeq(stream, 1, pos))
    /\ (pc = "returned" /\ ReadFailures = {}) => returned = Ok(EntriesOf(stream))

\* three lines were read, the middle one failed, and the two entries
\* returned differ
C2_Witness ==
    /\ pc = "returned"
    /\ ReadFailures = {}
    /\ Len(stream) = 3
    /\ Entry(ParserNew(stream[2].val)).res.tag = "Err"
    /\ returned.tag = "Ok"
    /\ Len(returned.val) = 2
    /\ returned.val[1] # returned.val[2]

----------------------------------------------------------------------------
(* C3 *)

\* w is no time literal: no colon, or an hour or minute part that is no
\* numeral
NoTimeLiteral(w) ==
    \/ Colons(w) = {}
    \/ ~IsNumeral(HourPart(w))
    \/ ~IsNumeral(MinutePart(w))

\* a grammar rule fails on the tokens: a token is missing, a keyword is
\* wrong, or a number is unparsable
Malformed(ws) ==
    \/ Len(ws) < 9
    \/ ~Spells(ws[1], KwRem)
    \/ ~IsAbbreviation(ws[2])
    \/ ~IsNumeral(ws[3])
    \/ ~IsNumeral(ws[4])
    \/ ~Spells(ws[5], KwAt)
    \/ NoTimeLiteral(ws[6])
    \/ ~Spells(ws[7], KwDuration)
    \/ NoTimeLiteral(ws[8])
    \/ ~Spells(ws[9], KwMsg)

EntryFields == {"date", "duration", "msg", "time"}

\* C3: when the stream reads without error parse returns success, having
\* read every line; a line on which a grammar rule fails adds no entry,
\* every entry has all four fields, and the lines after a failing line are
\* still parsed.
C3_FailingLinesAreSkipped ==
    /\ (LineDone /\ Malformed(CurTokens)) => last.tag = "Err"
    /\ (LineDone /\ last.tag = "Err") =>
          /\ pos \notin Accepted
          /\ Len(entries) = Cardinality(Accepted)
    /\ \A i \in 1..Len(entries) : DOMAIN entries[i] = EntryFields
    /\ (pc = "returned" /\ ReadFailures = {}) =>
          /\ returned.tag = "Ok"
          /\ pos = Len(stream)
          /\ Len(returned.val) = Cardinality(Accepted)
          /\ \A i \in 1..Len(returned.val) : DOMAIN returned.val[i] = EntryFields

\* parse returned the entry of a line that came after two failing lines
C3_Witness ==
    /\ pc = "returned"
    /\ ReadFailures = {}
    /\ Len(stream) = 3
    /\ Malformed(Tokens(stream[1].val))
    /\ Tokens(stream[2].val) = <<>>
    /\ returned.tag = "Ok"
    /\ Len(returned.val) = 1

----------------------------------------------------------------------------
(* C4 *)

FirstReadFailure == CHOOSE i \in ReadFailures : \A j \in ReadFailures : i <= j

\* C4: if reading a line fails, parse returns the error of that read and
\* nothing else: no entry parsed from earlier lines is returned, no line
\* after the failing read is read or parsed, and parse does nothing more.
C4_ReadFailureAborts ==
    /\ ReadFailures # {} => pos <= FirstReadFailure
    /\ (pc = "returned" /\ ReadFailures # {}) =>
          /\ returned = Err(stream[FirstReadFailure].err)
          /\ DOMAIN returned = {"tag", "err"}
          /\ pos = FirstReadFailure
          /\ ~ENABLED Next

\* the read failed after an entry had been parsed and before another line
C4_Witness ==
    /\ pc = "returned"
    /\ returned.tag = "Err"
    /\ entries # <<>>
    /\ pos < Len(stream)
    /\ stream[pos + 1].tag = "Ok"

----------------------------------------------------------------------------
(* C6 *)

\* C6: msg is all the tokens after MSG, in order, joined by exactly one
\* space each; a line that ends at MSG yields an entry whose msg is empty.
C6_MessageIsRestJoined ==
    /\ (LineDone /\ last.tag = "Ok") =>
          last.val.msg = Spaced(SubSeq(CurTokens, 10, Len(CurTokens)))
    /\ (LineDone /\ HasShape(CurTokens) /\ FitsFields(CurTokens)
          /\ Len(CurTokens) = 9) =>
          (last.tag = "Ok" /\ last.val.msg = <<>>)

\* a message of two words separated by more than one blank was parsed
C6_Witness ==
    /\ LineDone
    /\ last.tag = "Ok"
    /\ Len(CurTokens) = 11
    /\ Len(CurLine) > Len(Spaced(CurTokens))
    /\ Len(last.val.msg) = Len(CurTokens[10]) + 1 + Len(CurTokens[11])

----------------------------------------------------------------------------
(* C7 *)

Letters ==
    << <<"A","a">>, <<"B","b">>, <<"C","c">>, <<"D","d">>, <<"E","e">>,
       <<"F","f">>, <<"G","g">>, <<"H","h">>, <<"I","i">>, <<"J","j">>,
       <<"K","k">>, <<"L","l">>, <<"M","m">>, <<"N","n">>, <<"O","o">>,
       <<"P","p">>, <<"Q","q">>, <<"R","r">>, <<"S","s">>, <<"T","t">>,
       <<"U","u">>, <<"V","v">>, <<"W","w">>, <<"X","x">>, <<"Y","y">>,
       <<"Z","z">> >>

\* character c in upper case (which = 1) or lower case (which = 2)
InCase(c, which) ==
    IF \E k \in 1..26 : c \in { Letters[k][1], Letters[k][2] }
    THEN Letters[CHOOSE k \in 1..26 : c \in { Letters[k][1], Letters[k][2] }][which]
    ELSE c

\* word w in upper case (style 1), lower case (style 2), or with its first
\* letter in upper case and the others in lower case (style 3)
Recased(w, style) ==
    <<>> \o [i \in 1..Len(w) |->
        InCase(w[i], IF style = 3 THEN (IF i = 1 THEN 1 ELSE 2) ELSE style)]

\* the positions of the keywords and of the month abbreviation
CasePositions == {1, 2, 5, 7, 9}

\* ws with the words at the positions in P recased in the given style
RecasedAt(ws, P, style) ==
    <<>> \o [i \in 1..Len(ws) |-> IF i \in P THEN Recased(ws[i], style) ELSE ws[i]]

\* word lists that differ from ws only in the letter case of words at the
\* keyword and month positions: one of them recased, or all of them
CaseVariants(ws) ==
    { RecasedAt(ws, P, style) :
        P \in { {i} : i \in CasePositions } \cup { CasePositions },
        style \in 1..3 }

\* C7: changing the letter case of the keywords and of the month
\* abbreviation changes neither whether the line yields an entry nor any
\* field of the entry, and the message words keep their letter case.
C7_KeywordCaseIsIgnored ==
    LineDone =>
        /\ \A v \in CaseVariants(parser.words) :
              LET r == Entry([index |-> 0, words |-> v]).res
              IN  /\ r.tag = last.tag
                  /\ r.tag = "Ok" => r.val = last.val
        /\ last.tag = "Ok" =>
              last.val.msg = Spaced(SubSeq(CurTokens, 10, Len(CurTokens)))

\* a line with a lower-case REM and a capitalised message word was parsed
C7_Witness ==
    /\ LineDone
    /\ last.tag = "Ok"
    /\ CurTokens[1] = <<"r","e","m">>
    /\ Len(CurTokens) > 9
    /\ CurTokens[10][1] = "E"
    /\ last.val.msg[1] = "E"

----------------------------------------------------------------------------
(* C8 *)

\* entry() failed in the month rule
MonthRejected ==
    /\ last.tag = "Err"
    /\ last.err.text \in {"Invalid month {}", "Expecting date, found end of line"}

\* C8: after REM, the month token is accepted if and only if it is one of
\* the twelve abbreviations in some letter case, and the month is then the
\* one whose ordinal is the abbreviation's place in jan .. dec, counted
\* from 0; any other token, or none, fails the line, which adds no entry.
C8_MonthTable ==
    /\ pc = "day" =>
          /\ IsAbbreviation(parser.words[2])
          /\ locals.month = Ordinal(parser.words[2])
    /\ (LineDone /\ Len(CurTokens) >= 1 /\ Spells(CurTokens[1], KwRem)) =>
          /\ MonthRejected <=> ~(Len(CurTokens) >= 2 /\ IsAbbreviation(CurTokens[2]))
          /\ MonthRejected => Len(entries) = Cardinality(Accepted \ {pos})
    /\ (LineDone /\ last.tag = "Ok") =>
          /\ IsAbbreviation(CurTokens[2])
          /\ last.val.date.month = Ordinal(CurTokens[2])

\* the month word JUL in mixed case was accepted as July, ordinal 6
C8_Witness ==
    /\ pc = "day"
    /\ parser.words[2] = <<"j","U","L">>
    /\ locals.month = 6

----------------------------------------------------------------------------
(* C9 *)

\* w is a time literal: it has a colon, and its hour and minute parts are
\* numerals of value at most 255
IsTimeLiteral(w) ==
    /\ ~NoTimeLiteral(w)
    /\ NumeralValue(HourPart(w)) <= 255
    /\ NumeralValue(MinutePart(w)) <= 255

TimeOf(w) == [hour |-> NumeralValue(HourPart(w)), minute |-> NumeralValue(MinutePart(w))]

\* C9: a time literal, after AT and after DURATION, consumes exactly one
\* word; the word is accepted, with the first two colon-separated parts as
\* hour and minute, if and only if it has a colon and both parts are
\* integers of at most 255 (parts beyond the second are ignored); any other
\* word fails the line.
C9_TimeLiteral ==
    [][ (pc \in {"time_num", "duration_num"} /\ parser.index < Len(parser.words)) =>
          LET w == parser.words[parser.index + 1]
          IN  /\ parser'.index = parser.index + 1
              /\ IF IsTimeLiteral(w)
                 THEN /\ pc = "time_num" =>
                            (pc' = "ident_duration" /\ locals'.time = TimeOf(w))
                      /\ pc = "duration_num" =>
                            /\ pc' = "message"
                            /\ locals'.duration =
                                 TimeOf(w).hour * 3600 + TimeOf(w).minute * 60
                 ELSE /\ pc' = "lines"
                      /\ last'.tag = "Err"
                      /\ entries' = entries ]_vars

\* the word 19:00:59 after AT was accepted as hour 19, minute 0
C9_Witness ==
    /\ pc = "ident_duration"
    /\ parser.words[6] = <<"1","9",":","0","0",":","5","9">>
    /\ locals.time = [hour |-> 19, minute |-> 0]

----------------------------------------------------------------------------
(* C10 *)

RulePcs == {"ident_rem", "month", "day", "year", "ident_at", "time_num",
            "ident_duration", "duration_num", "message"}

\* the number of next_word() calls made before the rule at p
CallsBefore(p) ==
    CASE p = "ident_rem" -> 0 [] p = "month" -> 1 [] p = "day" -> 2
      [] p = "year" -> 3 [] p = "ident_at" -> 4 [] p = "time_num" -> 5
      [] p = "ident_duration" -> 6 [] p = "duration_num" -> 7
      [] p = "message" -> 8

\* C10: the cursor stays between 0 and the number of tokens; a next_word()
\* call moves it by exactly one when it returns a token, also when that
\* token then fails its rule, and leaves it alone at the end of input; no
\* other step of the line moves it, so the k-th call reads the k-th token
\* and nothing is read after a failure.
C10_CursorDiscipline ==
    /\ [](/\ 0 <= parser.index /\ parser.index <= Len(parser.words)
          /\ pc \in RulePcs => parser.index = CallsBefore(pc))
    /\ [][ IF pc = "lines"
           THEN parser' = parser \/ (pc' = "ident_rem" /\ parser'.index = 0)
           ELSE IF pc \in RulePcs
           THEN /\ parser'.words = parser.words
                /\ parser'.index = IF parser.index < Len(parser.words)
                                   THEN parser.index + 1
                                   ELSE parser.index
           ELSE parser' = parser ]_vars

\* the day token was read, failed the number rule, and nothing after it
\* was read
C10_Witness ==
    /\ LineDone
    /\ last.tag = "Err"
    /\ last.err.text = "invalid digit found in string"
    /\ parser.index = 3
    /\ Len(parser.words) > 3

====
